---- MODULE Spec2Model ----
(***************************************************************************)
(* Model of the render host in src/src/lib.rs: the State struct (surface   *)
(* configuration, window size, clear colour, pipeline registry and active  *)
(* index), State::new, State::resize, State::render and the closure that   *)
(* `run` hands to the winit event loop.  Every handler of that closure is  *)
(* one action.  The window system (winit) and the surface (wgpu) are the   *)
(* environment: which event comes next and what get_current_texture        *)
(* returns are nondeterministic choices.                                   *)
(***************************************************************************)
EXTENDS Integers, Sequences, FiniteSets, TLC

VARIABLES
    size,             \* State.size: PhysicalSize<u32>
    surface_config,   \* State.surface_config
    color,            \* State.color, each component a fraction <<num, den>>
    render_pipelines, \* State.render_pipelines
    active_pipeline,  \* State.active_pipeline
    buffers,          \* State.vertex_buffer, State.index_buffer, State.num_indices
    control_flow,     \* *control_flow of the event loop: "Poll" or "Exit"
    phase,            \* where the event loop is in its iteration
    redraw_requested, \* window.request_redraw() called and not yet served
    window_size,      \* the window's physical size as last reported by the window system
    last_valid_size,  \* the size of the most recent resize event with both dimensions
                      \* nonzero, or window.inner_size() if there was none
    applied,          \* the configuration last handed to surface.configure
    texture,          \* State::new's texture upload in progress, then State.diffuse_bind_group
    last,             \* the event the closure handled last, and the surface/queue calls it made
    renderCalls,      \* number of State::render calls (saturating)
    okRenders,        \* number of State::render calls that returned Ok (saturating)
    submitted,        \* number of queue.submit calls (saturating)
    presented,        \* number of output.present calls (saturating)
    spacePresses      \* number of Space key presses handled (saturating)

vars == <<size, surface_config, color, render_pipelines, active_pipeline, buffers,
          control_flow, phase, redraw_requested, window_size, last_valid_size,
          applied, texture, last, renderCalls, okRenders, submitted, presented,
          spacePresses>>

\* Bounds of the model: the counters above stop counting one past these.
MaxFrames == 2
MaxPresses == 2
\* Largest width and height of the image embedded as the texture source.
MaxTexDim == 2

Bump(c, max) == IF c > max THEN c ELSE c + 1

----------------------------------------------------------------------------
\* Constants of the program

Frac(n, d) == <<n, d>>

\* const BLUE: r 0.1, g 0.2, b 0.3, a 1.0
BLUE == [r |-> Frac(1, 10), g |-> Frac(1, 5), b |-> Frac(3, 10), a |-> Frac(1, 1)]

\* const VERTICES: the five vertices A..E
VERTICES == <<"A", "B", "C", "D", "E">>

\* const INDICES
INDICES == <<0, 1, 4, 1, 2, 4, 2, 3, 4>>

\* Variant: a registry of two pipelines.
Pipelines_two == <<"boring_shader", "colour_shader">>

\* let render_pipelines = vec![create_pipeline(.., &boring_shader, ..)]
Pipelines == <<"boring_shader">>

PhysicalSize(w, h) == [width |-> w, height |-> h]

----------------------------------------------------------------------------
\* The environment's choices

\* Sizes the window system can report (window.inner_size(), Resized,
\* ScaleFactorChanged): two ordinary sizes and two with a zero dimension.
WindowSizes == { PhysicalSize(800, 600), PhysicalSize(640, 480),
                 PhysicalSize(0, 300), PhysicalSize(640, 0) }

\* Cursor positions the window system can report: one inside the window,
\* one outside an 800x600 window to the right.
CursorPositions == { <<400, 300>>, <<900, 0>> }

\* What surface.get_capabilities can return.
SurfaceCaps ==
    { [formats |-> << [name |-> "Bgra8Unorm", srgb |-> FALSE],
                      [name |-> "Bgra8UnormSrgb", srgb |-> TRUE] >>,
       present_modes |-> <<"Fifo">>, alpha_modes |-> <<"Opaque">>],
      [formats |-> << [name |-> "Rgba16Float", srgb |-> FALSE] >>,
       present_modes |-> <<"Fifo">>, alpha_modes |-> <<"Auto">>] }

\* Colour types image::load_from_memory can decode the embedded file to, with
\* their number of 8-bit samples per pixel.
ColorTypes == {"L8", "La8", "Rgb8", "Rgba8"}

Channels(ct) ==
    CASE ct = "L8" -> 1
      [] ct = "La8" -> 2
      [] ct = "Rgb8" -> 3
      [] ct = "Rgba8" -> 4

\* The decoded image: its dimensions, colour type and pixels (pixel i holds
\* Channels samples).
Image(w, h, ct) ==
    [width |-> w, height |-> h, color_type |-> ct,
     pixels |-> [i \in 1..(w * h) |-> [k \in 1..Channels(ct) |-> (16 * i + k) % 256]]]

Images == { Image(w, h, ct) : w \in 1..MaxTexDim, h \in 1..MaxTexDim, ct \in ColorTypes }

\* What surface.get_current_texture can return: Ok or a wgpu::SurfaceError.
AcquireResults == {"Ok", "Lost", "OutOfMemory", "Timeout", "Outdated"}

----------------------------------------------------------------------------
\* Pure parts of the program

\* surface_caps.formats.iter().copied().find(|f| f.describe().srgb)
\*     .unwrap_or(surface_caps.formats[0])
SurfaceFormat(caps) ==
    LET srgbs == { i \in 1..Len(caps.formats) : caps.formats[i].srgb }
    IN  IF srgbs = {}
        THEN caps.formats[1].name
        ELSE caps.formats[CHOOSE i \in srgbs : \A j \in srgbs : i <= j].name

RECURSIVE Flatten(_)
Flatten(ss) == IF ss = <<>> THEN <<>> ELSE Head(ss) \o Flatten(Tail(ss))

\* The image's own sample bytes, Channels per pixel.
RawBytes(img) == Flatten(img.pixels)

\* One pixel converted to Rgba<u8>: luma is copied to r, g and b, a missing
\* alpha is 255.
ToRgba(ct, px) ==
    CASE ct = "L8" -> <<px[1], px[1], px[1], 255>>
      [] ct = "La8" -> <<px[1], px[1], px[1], px[2]>>
      [] ct = "Rgb8" -> <<px[1], px[2], px[3], 255>>
      [] ct = "Rgba8" -> px

\* Variant: the image's own bytes uploaded without conversion.
to_rgba8_raw(img) == RawBytes(img)

\* diffuse_image.to_rgba8(): the bytes of the converted image.
to_rgba8(img) ==
    Flatten([i \in 1..Len(img.pixels) |-> ToRgba(img.color_type, img.pixels[i])])

\* diffuse_image.dimensions()
dimensions(img) == <<img.width, img.height>>

\* queue.write_texture(.., &diffuse_rgba, ImageDataLayout { .. }, texture_size)
\* as the copy it issues.
write_texture(data, width, height) ==
    [data |-> data,
     bytes_per_row |-> 4 * width,
     rows_per_image |-> height,
     texture_size |-> [width |-> width, height |-> height, depth_or_array_layers |-> 1]]

RECURSIVE GCD(_, _)
GCD(a, b) == IF b = 0 THEN a ELSE GCD(b, a % b)

\* position.x / state.size.width as f64: the quotient as a fraction in lowest
\* terms; a zero divisor gives <<1, 0>> (infinity) or <<0, 0>> (NaN).
Div(x, w) ==
    IF w = 0
    THEN (IF x = 0 THEN Frac(0, 0) ELSE Frac(1, 0))
    ELSE LET g == GCD(x, w) IN Frac(x \div g, w \div g)

\* Variant: the ratios clamped to [0, 1].
CursorColor_clamped(c, pos, sz) ==
    LET clamp(f) == IF f[2] > 0 /\ f[1] > f[2] THEN Frac(1, 1) ELSE f
    IN  [r |-> clamp(Div(pos[1], sz.width)), g |-> clamp(Div(pos[2], sz.height)),
         b |-> c.b, a |-> c.a]

\* The body of the CursorMoved arm: a new Color with r and g replaced.
CursorColor(c, pos, sz) ==
    [r |-> Div(pos[1], sz.width), g |-> Div(pos[2], sz.height), b |-> c.b, a |-> c.a]

\* Variant: the increment without the modulo.
NextPipeline_nomod(i, pipelines) == i + 1

\* The body of the Space arm: active_pipeline += 1; active_pipeline %= len.
NextPipeline(i, pipelines) == (i + 1) % Len(pipelines)

\* Variant: the guard written with || instead of &&.
resize_or(sz, cfg, new_size) ==
    IF new_size.width > 0 \/ new_size.height > 0
    THEN [size |-> new_size,
          surface_config |-> [cfg EXCEPT !.width = new_size.width,
                                         !.height = new_size.height],
          configured |-> TRUE]
    ELSE [size |-> sz, surface_config |-> cfg, configured |-> FALSE]

\* Variant: self.size is updated but surface_config keeps its old dimensions.
resize_stale(sz, cfg, new_size) ==
    IF new_size.width > 0 /\ new_size.height > 0
    THEN [size |-> new_size, surface_config |-> cfg, configured |-> TRUE]
    ELSE [size |-> sz, surface_config |-> cfg, configured |-> FALSE]

\* State::resize as a function of the fields it reads: the fields it writes
\* and whether it called surface.configure.
resize(sz, cfg, new_size) ==
    IF new_size.width > 0 /\ new_size.height > 0
    THEN [size |-> new_size,
          surface_config |-> [cfg EXCEPT !.width = new_size.width,
                                         !.height = new_size.height],
          configured |-> TRUE]
    ELSE [size |-> sz, surface_config |-> cfg, configured |-> FALSE]

\* Variant: output.present() left out.
render_no_present(acquire) ==
    IF acquire = "Ok"
    THEN [result |-> "Ok", ops |-> <<"get_current_texture", "submit">>]
    ELSE [result |-> acquire, ops |-> <<"get_current_texture">>]

\* State::render as a function of what get_current_texture returns: the
\* result and the surface/queue calls made, in order.
render(acquire) ==
    IF acquire = "Ok"
    THEN [result |-> "Ok", ops |-> <<"get_current_texture", "submit", "present">>]
    ELSE [result |-> acquire, ops |-> <<"get_current_texture">>]

\* Variant: Outdated handled like Lost.
OnRenderResult_outdated(result, sz, cfg, cf) ==
    CASE result = "Ok" ->
            [size |-> sz, surface_config |-> cfg, configured |-> FALSE, control_flow |-> cf]
      [] result \in {"Lost", "Outdated"} ->
            LET r == resize(sz, cfg, sz)
            IN  [size |-> r.size, surface_config |-> r.surface_config,
                 configured |-> r.configured, control_flow |-> cf]
      [] result = "OutOfMemory" ->
            [size |-> sz, surface_config |-> cfg, configured |-> FALSE, control_flow |-> "Exit"]
      [] OTHER ->
            [size |-> sz, surface_config |-> cfg, configured |-> FALSE, control_flow |-> cf]

\* The match on state.render() in the RedrawRequested arm.
OnRenderResult(result, sz, cfg, cf) ==
    CASE result = "Ok" ->
            [size |-> sz, surface_config |-> cfg, configured |-> FALSE, control_flow |-> cf]
      [] result = "Lost" ->
            LET r == resize(sz, cfg, sz)
            IN  [size |-> r.size, surface_config |-> r.surface_config,
                 configured |-> r.configured, control_flow |-> cf]
      [] result = "OutOfMemory" ->
            [size |-> sz, surface_config |-> cfg, configured |-> FALSE, control_flow |-> "Exit"]
      [] OTHER ->
            [size |-> sz, surface_config |-> cfg, configured |-> FALSE, control_flow |-> cf]

Count(s, x) == Cardinality({ i \in 1..Len(s) : s[i] = x })

Event(name, arg, acquire, ops) ==
    [event |-> name, arg |-> arg, acquire |-> acquire, ops |-> ops]

ConfigureOps(configured) == IF configured THEN <<"configure">> ELSE <<>>

----------------------------------------------------------------------------
\* State::new up to surface.configure (lines 68-139), with the fields the
\* State it returns will hold

Init ==
    \E caps \in SurfaceCaps, inner \in WindowSizes :
        /\ size = inner
        /\ surface_config = [format |-> SurfaceFormat(caps),
                             width |-> inner.width,
                             height |-> inner.height,
                             present_mode |-> caps.present_modes[1],
                             alpha_mode |-> caps.alpha_modes[1]]
        /\ applied = surface_config
        /\ color = BLUE
        /\ render_pipelines = Pipelines
        /\ active_pipeline = 0
        /\ buffers = [vertex_buffer |-> VERTICES, index_buffer |-> INDICES,
                      num_indices |-> Len(INDICES)]
        /\ control_flow = "Poll"
        \* surface.configure with a zero area is either refused by the
        \* surface (State::new panics) or accepted.
        /\ phase \in (IF inner.width = 0 \/ inner.height = 0
                      THEN {"new", "aborted"} ELSE {"new"})
        /\ texture = [pc |-> "load"]
        /\ redraw_requested = FALSE
        /\ window_size = inner
        /\ last_valid_size = inner
        /\ last = Event("Init", <<>>, "none", <<"configure">>)
        /\ renderCalls = 0
        /\ okRenders = 0
        /\ submitted = 0
        /\ presented = 0
        /\ spacePresses = 0

----------------------------------------------------------------------------
\* The arms of the closure

Counters == <<renderCalls, okRenders, submitted, presented, spacePresses>>
Resources == <<render_pipelines, buffers, texture>>
Window == <<window_size, last_valid_size>>

StateFields == <<size, surface_config, color, active_pipeline, control_flow,
                 Window, applied, render_pipelines, buffers, Counters>>

\* image::load_from_memory(include_bytes!("tree.png")).unwrap(), to_rgba8()
\* and dimensions(): the embedded file decodes to some image.
LoadImage ==
    /\ phase = "new"
    /\ texture.pc = "load"
    /\ \E img \in Images :
        texture' = [pc |-> "loaded", diffuse_rgba |-> to_rgba8(img),
                    width |-> dimensions(img)[1], height |-> dimensions(img)[2]]
    /\ last' = Event("load_from_memory", <<>>, "none", <<>>)
    /\ UNCHANGED <<phase, redraw_requested, StateFields>>

\* The unwrap() on a file that does not decode: State::new panics before
\* any texture is created.
LoadImageFails ==
    /\ phase = "new"
    /\ texture.pc = "load"
    /\ phase' = "aborted"
    /\ last' = Event("load_from_memory", <<>>, "none", <<"panic">>)
    /\ UNCHANGED <<texture, redraw_requested, StateFields>>

\* device.create_texture and queue.write_texture
WriteTexture ==
    /\ phase = "new"
    /\ texture.pc = "loaded"
    /\ texture' = [pc |-> "written",
                   width |-> texture.width, height |-> texture.height,
                   write |-> write_texture(texture.diffuse_rgba, texture.width,
                                           texture.height)]
    /\ last' = Event("write_texture", <<>>, "none", <<"create_texture", "write_texture">>)
    /\ UNCHANGED <<phase, redraw_requested, StateFields>>

\* The rest of State::new (view, sampler, bind group, pipeline, buffers, Self)
\* and the start of event_loop.run.  The window system asks for the first
\* redraw itself ("RedrawRequested will only trigger once, unless we manually
\* request it").
FinishNew ==
    /\ phase = "new"
    /\ texture.pc = "written"
    /\ texture' = [pc |-> "bound"]
    /\ phase' = "events"
    /\ redraw_requested' = TRUE
    /\ last' = Event("new", <<>>, "none", <<"create_bind_group">>)
    /\ UNCHANGED StateFields

\* WindowEvent::Resized(physical_size) => state.resize(*physical_size)
\* WindowEvent::ScaleFactorChanged { new_inner_size, .. } => state.resize(**new_inner_size)
ResizeEvent(name, new_size) ==
    /\ phase = "events"
    /\ LET r == resize(size, surface_config, new_size)
       IN  /\ size' = r.size
           /\ surface_config' = r.surface_config
           /\ applied' = IF r.configured THEN r.surface_config ELSE applied
           /\ last' = Event(name, <<new_size.width, new_size.height>>, "none",
                            ConfigureOps(r.configured))
    /\ window_size' = new_size
    /\ last_valid_size' = IF new_size.width = 0 \/ new_size.height = 0
                          THEN last_valid_size ELSE new_size
    /\ UNCHANGED <<color, active_pipeline, control_flow, phase, redraw_requested,
                   Resources, Counters>>

Resized == \E new_size \in WindowSizes : ResizeEvent("Resized", new_size)

ScaleFactorChanged == \E new_size \in WindowSizes : ResizeEvent("ScaleFactorChanged", new_size)

\* WindowEvent::CursorMoved { position, .. }
CursorMoved ==
    /\ phase = "events"
    /\ \E pos \in CursorPositions :
        /\ color' = CursorColor(color, pos, size)
        /\ last' = Event("CursorMoved", pos, "none", <<>>)
    /\ UNCHANGED <<size, surface_config, active_pipeline, control_flow, phase,
                   redraw_requested, Window, applied, Resources, Counters>>

\* KeyboardInput { Pressed, Some(Space) }
SpacePressed ==
    /\ phase = "events"
    /\ active_pipeline' = NextPipeline(active_pipeline, render_pipelines)
    /\ spacePresses' = Bump(spacePresses, MaxPresses)
    /\ last' = Event("Space", <<>>, "none", <<>>)
    /\ UNCHANGED <<size, surface_config, color, control_flow, phase, redraw_requested,
                   Window, applied, Resources,
                   renderCalls, okRenders, submitted, presented>>

\* WindowEvent::CloseRequested | KeyboardInput { Pressed, Some(Escape) }
ExitEvent(name) ==
    /\ phase = "events"
    /\ control_flow' = "Exit"
    /\ last' = Event(name, <<>>, "none", <<>>)
    /\ UNCHANGED <<size, surface_config, color, active_pipeline, phase, redraw_requested,
                   Window, applied, Resources, Counters>>

CloseRequested == ExitEvent("CloseRequested")

EscapePressed == ExitEvent("Escape")

\* Variant: the handler without request_redraw().
MainEventsCleared_noredraw ==
    /\ phase = "events"
    /\ phase' = "redraw"
    /\ last' = Event("MainEventsCleared", <<>>, "none", <<>>)
    /\ UNCHANGED <<size, surface_config, color, active_pipeline, control_flow,
                   redraw_requested, Window, applied, Resources, Counters>>

\* Event::MainEventsCleared => state.window().request_redraw()
MainEventsCleared ==
    /\ phase = "events"
    /\ redraw_requested' = TRUE
    /\ phase' = "redraw"
    /\ last' = Event("MainEventsCleared", <<>>, "none", <<>>)
    /\ UNCHANGED <<size, surface_config, color, active_pipeline, control_flow,
                   Window, applied, Resources, Counters>>

\* Event::RedrawRequested => state.update(); match state.render() { ... }
RedrawRequested ==
    /\ phase = "redraw"
    /\ redraw_requested
    /\ \E acquire \in AcquireResults :
        LET out == render(acquire)
            h   == OnRenderResult(out.result, size, surface_config, control_flow)
        IN  /\ size' = h.size
            /\ surface_config' = h.surface_config
            /\ applied' = IF h.configured THEN h.surface_config ELSE applied
            /\ control_flow' = h.control_flow
            /\ last' = Event("RedrawRequested", <<>>, acquire,
                             out.ops \o ConfigureOps(h.configured))
            /\ renderCalls' = Bump(renderCalls, MaxFrames)
            /\ okRenders' = IF out.result = "Ok" THEN Bump(okRenders, MaxFrames)
                            ELSE okRenders
            /\ submitted' = IF Count(out.ops, "submit") > 0 THEN Bump(submitted, MaxFrames)
                            ELSE submitted
            /\ presented' = IF Count(out.ops, "present") > 0 THEN Bump(presented, MaxFrames)
                            ELSE presented
    /\ redraw_requested' = FALSE
    /\ UNCHANGED <<color, active_pipeline, phase, Window, Resources, spacePresses>>

\* Event::RedrawEventsCleared falls to the `_ => {}` arm; the event loop then
\* starts its next iteration, or stops when control_flow is Exit.
RedrawEventsCleared ==
    /\ phase = "redraw"
    /\ ~redraw_requested
    /\ phase' = IF control_flow = "Exit" THEN "destroyed" ELSE "events"
    /\ last' = Event("RedrawEventsCleared", <<>>, "none", <<>>)
    /\ UNCHANGED <<size, surface_config, color, active_pipeline, control_flow,
                   redraw_requested, Window, applied, Resources, Counters>>

\* Event::LoopDestroyed: once control_flow is Exit the event loop may stop
\* before the iteration's remaining events are delivered.
LoopDestroyed ==
    /\ phase \in {"events", "redraw"}
    /\ control_flow = "Exit"
    /\ phase' = "destroyed"
    /\ last' = Event("LoopDestroyed", <<>>, "none", <<>>)
    /\ UNCHANGED <<size, surface_config, color, active_pipeline, control_flow,
                   redraw_requested, Window, applied, Resources, Counters>>

Next ==
    \/ LoadImage
    \/ LoadImageFails
    \/ WriteTexture
    \/ FinishNew
    \/ Resized
    \/ ScaleFactorChanged
    \/ CursorMoved
    \/ SpacePressed
    \/ CloseRequested
    \/ EscapePressed
    \/ MainEventsCleared
    \/ RedrawRequested
    \/ RedrawEventsCleared
    \/ LoopDestroyed

Spec == Init /\ [][Next]_vars

\* The event loop runs with ControlFlow::Poll: it never waits, and every
\* iteration delivers MainEventsCleared, the requested redraw and
\* RedrawEventsCleared.
FairSpec ==
    /\ Spec
    /\ WF_vars(MainEventsCleared)
    /\ WF_vars(RedrawRequested)
    /\ WF_vars(RedrawEventsCleared)

TypeOK ==
    /\ size \in WindowSizes
    /\ window_size \in WindowSizes
    /\ control_flow \in {"Poll", "Exit"}
    /\ phase \in {"new", "events", "redraw", "destroyed", "aborted"}
    /\ texture.pc \in {"load", "loaded", "written", "bound"}
    /\ redraw_requested \in BOOLEAN
    /\ active_pipeline \in Nat
    /\ renderCalls \in 0..(MaxFrames + 1)
    /\ spacePresses \in 0..(MaxPresses + 1)

----------------------------------------------------------------------------
\* Steps of the closure, recognised by the event recorded in last'

ResizeStep == last'.event \in {"Resized", "ScaleFactorChanged"}
RenderStep == last'.event = "RedrawRequested"
CursorStep == last'.event = "CursorMoved"
SpaceStep == last'.event = "Space"

ZeroArea(w, h) == w = 0 \/ h = 0

\* The spec's engine state, read off the closure's control flow.
EngineState == IF control_flow = "Exit" THEN "Terminating" ELSE "Ready"

PersistentState == <<surface_config, size, color, active_pipeline, render_pipelines, buffers>>

----------------------------------------------------------------------------
\* C1: a resize event with a zero width or height changes neither
\* surface_config nor the stored size and does not configure the surface;
\* one with both dimensions nonzero sets surface_config.width/height to
\* exactly those and leaves the other fields alone.  In every state the
\* configured dimensions are those of the most recent resize event with both
\* dimensions nonzero, or the initial size.
C1_Reconfigure ==
    /\ [](/\ surface_config.width = last_valid_size.width
          /\ surface_config.height = last_valid_size.height)
    /\ [][ResizeStep =>
            LET w == last'.arg[1]
                h == last'.arg[2]
            IN  IF ZeroArea(w, h)
                THEN /\ surface_config' = surface_config
                     /\ size' = size
                     /\ applied' = applied
                     /\ last'.ops = <<>>
                ELSE /\ surface_config' = [surface_config EXCEPT !.width = w, !.height = h]
                     /\ size' = PhysicalSize(w, h)
                     /\ applied' = surface_config'
                     /\ last'.ops = <<"configure">>]_vars

\* C1 witness: a resize to (0, 300) was handled with 800x600 configured, and
\* 800x600 is still configured.
C1_Witness ==
    /\ last.event = "Resized"
    /\ last.arg = <<0, 300>>
    /\ last.ops = <<>>
    /\ surface_config.width = 800
    /\ surface_config.height = 600
    /\ size = PhysicalSize(800, 600)

\* C2: on a Lost acquisition the handler presents and submits nothing,
\* advances no frame count, applies the unchanged surface_config to the
\* surface exactly once, and does not set the control flow to Exit.
C2_LostRecovery ==
    [][(RenderStep /\ last'.acquire = "Lost") =>
            /\ presented' = presented
            /\ submitted' = submitted
            /\ okRenders' = okRenders
            /\ surface_config' = surface_config
            /\ Count(last'.ops, "configure") = 1
            /\ applied' = surface_config
            /\ control_flow' = control_flow
            /\ phase' = phase]_vars

\* C3: once control_flow is Exit it stays Exit and State::render is not
\* called again.
C3_TerminatingStopsRendering ==
    [][control_flow = "Exit" => (control_flow' = "Exit" /\ ~RenderStep)]_vars

\* C4: on an acquisition error other than Lost and OutOfMemory the handler
\* submits and presents nothing, does not configure the surface, leaves the
\* control flow as it was and changes no field of State.
C4_TransientSkip ==
    [][(RenderStep /\ last'.acquire \notin {"Ok", "Lost", "OutOfMemory"}) =>
            /\ last'.ops = <<"get_current_texture">>
            /\ submitted' = submitted
            /\ presented' = presented
            /\ control_flow' = control_flow
            /\ phase' = phase
            /\ applied' = applied
            /\ UNCHANGED PersistentState]_vars

\* C4 witness: a redraw whose acquisition timed out was handled.
C4_Witness ==
    /\ size = PhysicalSize(800, 600)
    /\ last.event = "RedrawRequested"
    /\ last.acquire = "Timeout"
    /\ renderCalls = 1
    /\ okRenders = 0
    /\ control_flow = "Poll"

\* C5: a render whose acquisition succeeds makes exactly one submission and
\* then exactly one presentation and leaves the control flow alone; one whose
\* acquisition fails makes none.  The number of presented frames equals the
\* number of successful renders.
C5_FrameAtomicity ==
    /\ [](presented = okRenders /\ submitted = okRenders)
    /\ [][RenderStep =>
            LET ops == last'.ops
            IN  IF last'.acquire = "Ok"
                THEN /\ Count(ops, "submit") = 1
                     /\ Count(ops, "present") = 1
                     /\ \E i, j \in 1..Len(ops) :
                            i < j /\ ops[i] = "submit" /\ ops[j] = "present"
                     /\ control_flow' = control_flow
                ELSE /\ Count(ops, "submit") = 0
                     /\ Count(ops, "present") = 0]_vars

\* C5 witness: two renders, one presented and one skipped.
C5_Witness ==
    /\ size = PhysicalSize(800, 600)
    /\ renderCalls = 2
    /\ okRenders = 1
    /\ presented = 1
    /\ last.event = "RedrawRequested"
    /\ last.acquire = "Ok"

\* C6: each Space press replaces the active index i by (i + 1) mod N, N the
\* number of registered pipelines; the index is always in [0, N); after any
\* multiple of N presses it is back at its starting value 0; no other event
\* changes it.
C6_PipelineCycling ==
    /\ [](/\ active_pipeline \in 0..(Len(render_pipelines) - 1)
          /\ (spacePresses <= MaxPresses /\ spacePresses % Len(render_pipelines) = 0)
                => active_pipeline = 0)
    /\ [][/\ SpaceStep =>
                active_pipeline' = (active_pipeline + 1) % Len(render_pipelines)
          /\ active_pipeline' # active_pipeline => SpaceStep]_vars

\* C6 witness: Space was pressed and a frame was then drawn with the index
\* in range.
C6_Witness ==
    /\ size = PhysicalSize(800, 600)
    /\ spacePresses = Len(render_pipelines)
    /\ active_pipeline = 0
    /\ last.event = "RedrawRequested"
    /\ last.acquire = "Ok"

\* C7 as stated: a registry of two pipelines, a 5-vertex / 9-index mesh,
\* index 0 at the start, 1 after one Space press and 0 after two.
C7_TwoPipelines ==
    /\ Len(render_pipelines) = 2
    /\ Len(buffers.vertex_buffer) = 5
    /\ buffers.num_indices = 9
    /\ spacePresses = 0 => active_pipeline = 0
    /\ spacePresses = 1 => active_pipeline = 1
    /\ spacePresses = 2 => active_pipeline = 0

\* C7 amended: a registry of one pipeline, a 5-vertex / 9-index mesh, and
\* index 0 at the start, after one Space press and after two.
C7_OnePipeline ==
    /\ Len(render_pipelines) = 1
    /\ Len(buffers.vertex_buffer) = 5
    /\ Len(buffers.index_buffer) = 9
    /\ buffers.num_indices = 9
    /\ spacePresses = 0 => active_pipeline = 0
    /\ spacePresses = 1 => active_pipeline = 0
    /\ spacePresses = 2 => active_pipeline = 0

\* C7 witness: exactly one Space press was handled.
C7_Witness ==
    /\ size = PhysicalSize(800, 600)
    /\ spacePresses = 1
    /\ last.event = "Space"
    /\ active_pipeline = 0

C9_AppliedPositive ==
    applied.width > 0 /\ applied.height > 0

\* The fraction f equals x / w; for w = 0 it is not finite.
RatioIs(f, x, w) ==
    IF w = 0 THEN f[2] = 0 ELSE f[2] > 0 /\ f[1] * w = x * f[2]

\* C10: the clear colour starts as BLUE; a pointer move at (x, y) sets red to
\* x / width and green to y / height of the stored window size, unclamped,
\* and changes nothing else; a pointer move at (400, 300) in an 800x600
\* window gives red = green = 1/2; no other event changes the colour.
C10_PointerMove ==
    /\ color = BLUE
    /\ [][/\ CursorStep =>
                LET x == last'.arg[1]
                    y == last'.arg[2]
                IN  /\ RatioIs(color'.r, x, size.width)
                    /\ RatioIs(color'.g, y, size.height)
                    /\ color'.b = color.b
                    /\ color'.a = color.a
                    /\ (size = PhysicalSize(800, 600) /\ x = 400 /\ y = 300) =>
                            (color'.r = Frac(1, 2) /\ color'.g = Frac(1, 2))
                    /\ UNCHANGED <<surface_config, size, active_pipeline, render_pipelines,
                                   buffers, control_flow, applied>>
          /\ color' # color => CursorStep]_vars

\* C10 witness: the pointer moved outside an 800x600 window, to (900, 0),
\* and red is 9/8.
C10_Witness ==
    /\ last.event = "CursorMoved"
    /\ last.arg = <<900, 0>>
    /\ size = PhysicalSize(800, 600)
    /\ color.r = Frac(9, 8)
    /\ color.g = Frac(0, 1)
    /\ color.b = BLUE.b
    /\ color.a = BLUE.a

\* C11: every texture write State::new issues carries exactly
\* width * height * 4 bytes for the texture's width and height, with a row
\* stride of 4 * width; a decoded image always goes on to that write, and a
\* file that does not decode ends State::new before any write.
C11_TextureWriteLength ==
    /\ [](texture.pc = "written" =>
            LET w == texture.write
            IN  /\ Len(w.data) = w.texture_size.width * w.texture_size.height * 4
                /\ w.bytes_per_row = 4 * w.texture_size.width
                /\ w.rows_per_image = w.texture_size.height
                /\ w.texture_size.width = texture.width
                /\ w.texture_size.height = texture.height)
    /\ [][/\ (texture.pc = "loaded" /\ texture' # texture) =>
                (texture'.pc = "written" /\ Count(last'.ops, "write_texture") = 1)
          /\ Count(last'.ops, "panic") > 0 =>
                (texture.pc = "load" /\ texture' = texture /\ phase' = "aborted")
          /\ Count(last'.ops, "write_texture") > 0 =>
                (texture.pc = "loaded" /\ texture'.pc = "written")]_vars

\* C11 witness: a 2x1 texture was written with 8 bytes whose fourth and
\* eighth, the alpha the conversion adds, are 255.
C11_Witness ==
    /\ texture.pc = "written"
    /\ texture.width = 2
    /\ texture.height = 1
    /\ Len(texture.write.data) = 8
    /\ texture.write.data[4] = 255
    /\ texture.write.data[8] = 255
    /\ texture.write.data[1] # texture.write.data[2]

\* A frame was skipped with the loop still running: the redraw was served,
\* the acquisition failed with Lost or a transient error, control_flow is Poll.
SkippedFrame ==
    /\ phase = "redraw"
    /\ ~redraw_requested
    /\ last.event = "RedrawRequested"
    /\ last.acquire \in {"Lost", "Timeout", "Outdated"}
    /\ control_flow = "Poll"

\* The next cycle has requested a redraw that is not yet served.
RedrawPending == phase = "redraw" /\ redraw_requested /\ control_flow = "Poll"

\* The requested redraw was served by a State::render call.
RenderAttempted == last.event = "RedrawRequested" /\ ~redraw_requested

\* C12: after a frame skipped on Lost or a transient error, unless the loop
\* is told to exit, the next cycle requests a redraw, and a requested redraw
\* is served by another State::render call.
C12_RetryLiveness ==
    /\ SkippedFrame ~> (RedrawPending \/ control_flow = "Exit")
    /\ RedrawPending ~> RenderAttempted

\* C12 witness: a second render ran after a first one that was skipped.
C12_Witness ==
    /\ last.event = "RedrawRequested"
    /\ last.acquire = "Lost"
    /\ renderCalls = 2
    /\ okRenders = 0
    /\ control_flow = "Poll"
    /\ size = PhysicalSize(640, 480)

====
